---- MODULE Spec2Model ----
(***************************************************************************)
(* The statefuld registry (statefuld.service): a static store of           *)
(* classes / branches / instances / properties, with the operations        *)
(* registerClass, switch, reassign, stash and stashByKey.                   *)
(*                                                                         *)
(* A JavaScript object is a record [ctor, props]: ctor is constructor.name *)
(* and props maps every field name to its value, Undefined when the field  *)
(* is absent or undefined (the code reads fields only through              *)
(* `x[prop] === undefined` / `!== undefined`).  A JavaScript Map is a      *)
(* function whose DOMAIN is the set of keys it has.                        *)
(***************************************************************************)
EXTENDS Integers, Sequences, FiniteSets, TLC

VARIABLES
  storage,        \* statefuld.storage: Map<className, ClassNode>
  currentBranch,  \* statefuld.currentBranch
  last,           \* the call the caller has just made: operation, arguments, outcome
  stashLog,       \* history: what the successful stashes so far were given, per (class, branch, id)
  app,            \* the application that drives the registry (its arguments, build or scheduling)
  components,     \* the live instances of the classes wrapped by Statefuld / StatefuldClass
  frame           \* the position and the locals of a stash or reassign that runs line by line

vars == <<storage, currentBranch, last, stashLog, app, components, frame>>

-----------------------------------------------------------------------------
(* Bounds of the model *)

MaxRecords == 2   \* instance records held by the storage in one run

-----------------------------------------------------------------------------
(* Values *)

Undefined == "undefined"     \* JavaScript undefined / an omitted argument
DefaultBranch == "*"
DefaultKeyProp == "id"

ClassNames == {"Hero", "Villain"}
BranchNames == {"A"}
InstanceIds == {"x", "y"}
KeyProps == {"id", "statefuldKey"}
DataProps == {"a", "b"}
Fields == KeyProps \cup DataProps
Values == {"1", "2"}

EmptyMap == [k \in {} |-> Undefined]

\* Map.prototype.set
MapSet(m, k, v) == [x \in (DOMAIN m) \cup {k} |-> IF x = k THEN v ELSE m[x]]

\* Map.prototype.get
MapGet(m, k) == IF k \in DOMAIN m THEN m[k] ELSE Undefined


-----------------------------------------------------------------------------
(* Objects handed to the registry *)

OptValues == Values \cup {Undefined}

\* an object: constructor.name and the value of every field (Undefined when absent)
Obj(ctor, id, statefuldKey, a, b) ==
  [kind |-> "object", ctor |-> ctor,
   props |-> [p \in Fields |-> CASE p = "id" -> id
                                 [] p = "statefuldKey" -> statefuldKey
                                 [] p = "a" -> a
                                 [] p = "b" -> b]]

\* the value undefined where an object is expected
UndefinedObject == [kind |-> "undefined", ctor |-> Undefined, props |-> [p \in Fields |-> Undefined]]

-----------------------------------------------------------------------------
(* class ClassNode *)

\* constructor: keyProp defaults to 'id', branchNodes is the (empty) map passed in
ClassNode(dProps, branchNodes, keyProp, fnGetSourceInstanceByKey) ==
  [ dProps |-> dProps,
    branchNodes |-> branchNodes,
    keyProp |-> IF keyProp # Undefined THEN keyProp ELSE DefaultKeyProp,
    fnGetSourceInstanceByKey |-> fnGetSourceInstanceByKey ]

\* the outcome of a Map lookup that may fail: the map found, undefined, or the
\* TypeError of calling .get/.set on the undefined branch
Found(m) == [kind |-> "map", map |-> m]
NotFound == [kind |-> "undefined", map |-> EmptyMap]
TypeError == [kind |-> "TypeError", map |-> EmptyMap]

\* faulty variant: the instance is looked up in the default branch
getInstanceOfDefaultBranch(classNode, id) ==
  IF DefaultBranch \notin DOMAIN classNode.branchNodes THEN TypeError
  ELSE IF id \in DOMAIN classNode.branchNodes[DefaultBranch]
       THEN Found(classNode.branchNodes[DefaultBranch][id])
       ELSE NotFound

\* getInstance = (id) => this.branchNodes.get(this.getCurrentBranch()).get(id)
getInstance(classNode, id) ==
  IF currentBranch \notin DOMAIN classNode.branchNodes THEN TypeError
  ELSE IF id \in DOMAIN classNode.branchNodes[currentBranch]
       THEN Found(classNode.branchNodes[currentBranch][id])
       ELSE NotFound

\* faulty variant: the record written replaces the records of the branch
setInstanceAlone(classNode, id, map) ==
  [classNode EXCEPT !.branchNodes[currentBranch] = [x \in {id} |-> map]]

\* setInstance = (id, map) => this.branchNodes.get(this.getCurrentBranch()).set(id, map)
\* (only called where the branch exists)
setInstance(classNode, id, map) ==
  [classNode EXCEPT !.branchNodes[currentBranch] = MapSet(@, id, map)]

-----------------------------------------------------------------------------
(* class statefuld: the static methods *)

Range(seq) == { seq[i] : i \in 1..Len(seq) }

\* the dProps argument: undefined, an Array<string> or a Set<string>
UndefinedDProps == [kind |-> "undefined", elems |-> <<>>]
ArrayDProps(seq) == [kind |-> "array", elems |-> seq]
SetDProps(set) == [kind |-> "set", elems |-> set]

\* faulty variant: the length is tested in place of the first element
IndexZeroAsLength(dProps) ==
  IF dProps.kind = "array" THEN ToString(Len(dProps.elems)) ELSE Undefined

\* dProps[0]: the first element of an array; a Set has no property 0
IndexZero(dProps) ==
  IF dProps.kind = "array" /\ Len(dProps.elems) > 0 THEN dProps.elems[1] ELSE Undefined

\* dProps instanceof Array ? new Set(dProps) : dProps as Set
AsSet(dProps) == IF dProps.kind = "array" THEN Range(dProps.elems) ELSE dProps.elems

\* the subjectClass argument: a string, or an object whose constructor.name is taken
StringSubject(name) == [kind |-> "string", value |-> name]

\* typeof subjectClass !== 'string' ? subjectClass.constructor.name : subjectClass
ClassNameOf(subjectClass) ==
  IF subjectClass.kind # "string" THEN subjectClass.ctor ELSE subjectClass.value

\* faulty variant: an already registered class is registered again, over the old node
registerClassOverwriting(subjectClass, dProps, keyProp, fnGetSourceInstanceByKey) ==
  IF dProps.kind = "undefined" \/ IndexZero(dProps) = Undefined
  THEN [res |-> "false", storage |-> storage]
  ELSE [res |-> "true",
        storage |-> MapSet(storage, ClassNameOf(subjectClass),
                           ClassNode(AsSet(dProps), EmptyMap, keyProp, fnGetSourceInstanceByKey))]

\* registerClass(subjectClass, dProps, keyProp, fnGetSourceInstanceByKey)
registerClass(subjectClass, dProps, keyProp, fnGetSourceInstanceByKey) ==
  LET className == ClassNameOf(subjectClass) IN
  IF className \in DOMAIN storage
  THEN [res |-> "false", storage |-> storage]
  ELSE IF dProps.kind = "undefined" \/ IndexZero(dProps) = Undefined
  THEN [res |-> "false", storage |-> storage]
  ELSE LET classNode == ClassNode(AsSet(dProps), EmptyMap, keyProp, fnGetSourceInstanceByKey)
       IN [res |-> "true", storage |-> MapSet(storage, className, classNode)]

\* faulty variant: switch() with no argument leaves the current branch
switchKeepingCurrent(branch) ==
  IF branch = Undefined \/ branch = currentBranch
  THEN [res |-> "true", currentBranch |-> currentBranch]
  ELSE [res |-> "true", currentBranch |-> branch]

\* switch(branch)
RECURSIVE switch(_)
switch(branch) ==
  IF branch = Undefined
  THEN IF currentBranch = DefaultBranch
       THEN [res |-> "true", currentBranch |-> currentBranch]
       ELSE switch(DefaultBranch)
  ELSE IF branch = currentBranch
  THEN [res |-> "true", currentBranch |-> currentBranch]
  ELSE [res |-> "true", currentBranch |-> branch]

\* const className = forcedClassName === undefined ? obj.constructor.name : forcedClassName
ResolveClassName(obj, forcedClassName) ==
  IF forcedClassName = Undefined THEN obj.ctor ELSE forcedClassName

\* faulty variant: falls back to the 'id' field when the key property is undefined
ResolveIdWithFallback(obj, classNode, forcedId) ==
  IF forcedId # Undefined THEN forcedId
  ELSE IF obj.props[classNode.keyProp] # Undefined THEN obj.props[classNode.keyProp]
  ELSE obj.props[DefaultKeyProp]

\* faulty variant: the key property of the object is preferred to the forced id
ResolveIdPreferringKeyProp(obj, classNode, forcedId) ==
  IF obj.props[classNode.keyProp] # Undefined THEN obj.props[classNode.keyProp] ELSE forcedId

\* const id = forcedId === undefined ? obj[classNode.keyProp] : forcedId
ResolveId(obj, classNode, forcedId) ==
  IF forcedId = Undefined THEN obj.props[classNode.keyProp] ELSE forcedId

\* faulty variant: a value the target already holds is not overwritten
AssignPropsKeepingTarget(classNode, instance, targetObj) ==
  [targetObj EXCEPT !.props =
     [p \in Fields |-> IF p \in classNode.dProps /\ p \in DOMAIN instance
                          /\ targetObj.props[p] = Undefined
                       THEN instance[p] ELSE targetObj.props[p]]]

\* faulty variant: instance.get(prop) is assigned without the instance.has(prop) test
AssignPropsWithoutHas(classNode, instance, targetObj) ==
  [targetObj EXCEPT !.props =
     [p \in Fields |-> IF p \in classNode.dProps THEN MapGet(instance, p)
                       ELSE targetObj.props[p]]]

\* dProps.forEach(prop => instance.has(prop) && (targetObj[prop] = instance.get(prop)))
AssignProps(classNode, instance, targetObj) ==
  [targetObj EXCEPT !.props =
     [p \in Fields |-> IF p \in classNode.dProps /\ p \in DOMAIN instance
                       THEN instance[p] ELSE targetObj.props[p]]]

\* faulty variant: the missing branch is created, as stash does
reassignCreatingBranch(targetObj, forcedClassName, forcedId) ==
  LET className == ResolveClassName(targetObj, forcedClassName) IN
  IF className = Undefined \/ className \notin DOMAIN storage
  THEN [res |-> "false", target |-> targetObj, storage |-> storage]
  ELSE
  LET classNode == storage[className]
      id == ResolveId(targetObj, classNode, forcedId)
  IN
  IF id = Undefined
  THEN [res |-> "false", target |-> targetObj, storage |-> storage]
  ELSE IF currentBranch \notin DOMAIN classNode.branchNodes
  THEN [res |-> "false", target |-> targetObj,
        storage |-> [storage EXCEPT ![className].branchNodes = MapSet(@, currentBranch, EmptyMap)]]
  ELSE IF getInstance(classNode, id).kind = "undefined"
  THEN [res |-> "false", target |-> targetObj, storage |-> storage]
  ELSE [res |-> "true",
        target |-> AssignProps(classNode, getInstance(classNode, id).map, targetObj),
        storage |-> storage]

\* faulty variant: on a missing instance the tracked properties of the target are reset
reassignResettingOnMiss(targetObj, forcedClassName, forcedId) ==
  LET className == ResolveClassName(targetObj, forcedClassName) IN
  IF className = Undefined \/ className \notin DOMAIN storage
  THEN [res |-> "false", target |-> targetObj, storage |-> storage]
  ELSE
  LET classNode == storage[className]
      id == ResolveId(targetObj, classNode, forcedId)
  IN
  IF id = Undefined
  THEN [res |-> "false", target |-> targetObj, storage |-> storage]
  ELSE IF currentBranch \notin DOMAIN classNode.branchNodes
          \/ getInstance(classNode, id).kind = "undefined"
  THEN [res |-> "false",
        target |-> [targetObj EXCEPT !.props =
                      [p \in Fields |-> IF p \in classNode.dProps THEN Undefined
                                        ELSE targetObj.props[p]]],
        storage |-> storage]
  ELSE [res |-> "true",
        target |-> AssignProps(classNode, getInstance(classNode, id).map, targetObj),
        storage |-> storage]

\* reassign(targetObj, forcedClassName, forcedId): the result, the target and the
\* storage afterwards
reassign(targetObj, forcedClassName, forcedId) ==
  LET className == ResolveClassName(targetObj, forcedClassName) IN
  IF className = Undefined \/ className \notin DOMAIN storage
  THEN [res |-> "false", target |-> targetObj, storage |-> storage]
  ELSE
  LET classNode == storage[className]
      id == ResolveId(targetObj, classNode, forcedId)
  IN
  IF id = Undefined
  THEN [res |-> "false", target |-> targetObj, storage |-> storage]
  ELSE IF currentBranch \notin DOMAIN classNode.branchNodes
  THEN [res |-> "false", target |-> targetObj, storage |-> storage]
  ELSE IF getInstance(classNode, id).kind = "undefined"
  THEN [res |-> "false", target |-> targetObj, storage |-> storage]
  ELSE IF getInstance(classNode, id).kind = "TypeError"
  THEN [res |-> "throw", target |-> targetObj, storage |-> storage]
  ELSE [res |-> "true",
        target |-> AssignProps(classNode, getInstance(classNode, id).map, targetObj),
        storage |-> storage]

\* faulty variant: the record is replaced by the properties this payload defines
StorePropsReplacing(classNode, instance, payloadObj) ==
  [p \in {q \in classNode.dProps : payloadObj.props[q] # Undefined} |-> payloadObj.props[p]]

\* faulty variant: every defined field of the payload is stored, tracked or not
StorePropsAllFields(classNode, instance, payloadObj) ==
  [p \in (DOMAIN instance) \cup {q \in Fields : payloadObj.props[q] # Undefined} |->
     IF payloadObj.props[p] # Undefined THEN payloadObj.props[p] ELSE instance[p]]

\* dProps.forEach(prop => payloadObj[prop] !== undefined && instance.set(prop, payloadObj[prop]))
StoreProps(classNode, instance, payloadObj) ==
  [p \in (DOMAIN instance) \cup {q \in classNode.dProps : payloadObj.props[q] # Undefined} |->
     IF p \in classNode.dProps /\ payloadObj.props[p] # Undefined
     THEN payloadObj.props[p] ELSE instance[p]]

\* faulty variant: the new branch replaces the branches the class has
EnsureBranchAlone(classNode) ==
  IF currentBranch \notin DOMAIN classNode.branchNodes
  THEN [classNode EXCEPT !.branchNodes = [b \in {currentBranch} |-> EmptyMap]]
  ELSE classNode

\* if (!branchNodes.has(currentBranch)) branchNodes.set(currentBranch, new Map())
EnsureBranch(classNode) ==
  IF currentBranch \notin DOMAIN classNode.branchNodes
  THEN [classNode EXCEPT !.branchNodes = MapSet(@, currentBranch, EmptyMap)]
  ELSE classNode

\* if (getInstance(id) === undefined) setInstance(id, new Map())
EnsureInstance(classNode, id) ==
  IF getInstance(classNode, id).kind = "undefined"
  THEN setInstance(classNode, id, EmptyMap)
  ELSE classNode

\* faulty variant: no instance record is created for a payload that defines no
\* tracked property
stashSkippingEmpty(payloadObj, forcedClassName, forcedId) ==
  IF forcedClassName = Undefined /\ payloadObj.kind = "undefined"
  THEN [res |-> "throw", storage |-> storage]
  ELSE
  LET className == ResolveClassName(payloadObj, forcedClassName) IN
  IF className = Undefined \/ className \notin DOMAIN storage
  THEN [res |-> "false", storage |-> storage]
  ELSE
  LET classNode == storage[className] IN
  IF forcedId = Undefined /\ payloadObj.kind = "undefined"
  THEN [res |-> "throw", storage |-> storage]
  ELSE
  LET id == ResolveId(payloadObj, classNode, forcedId) IN
  IF id = Undefined
  THEN [res |-> "false", storage |-> storage]
  ELSE
  LET withBranch == EnsureBranch(classNode)
      withInstance == EnsureInstance(withBranch, id)
      instance == getInstance(withInstance, id).map
  IN
  IF getInstance(withBranch, id).kind = "TypeError"
  THEN [res |-> "throw", storage |-> [storage EXCEPT ![className] = withBranch]]
  ELSE IF payloadObj.kind = "undefined"
  THEN [res |-> "throw", storage |-> [storage EXCEPT ![className] = withInstance]]
  ELSE IF \A p \in classNode.dProps : payloadObj.props[p] = Undefined
  THEN [res |-> "true", storage |-> [storage EXCEPT ![className] = withBranch]]
  ELSE [res |-> "true",
        storage |-> [storage EXCEPT ![className] =
                       setInstance(withInstance, id, StoreProps(classNode, instance, payloadObj))]]

\* stash(payloadObj, forcedClassName, forcedId): the result and the storage afterwards.
\* An undefined payloadObj raises a TypeError where a property of it is first read.
\* The fields of payloadObj are only read, the object is after the call what it was.
stash(payloadObj, forcedClassName, forcedId) ==
  IF forcedClassName = Undefined /\ payloadObj.kind = "undefined"
  THEN [res |-> "throw", storage |-> storage]
  ELSE
  LET className == ResolveClassName(payloadObj, forcedClassName) IN
  IF className = Undefined \/ className \notin DOMAIN storage
  THEN [res |-> "false", storage |-> storage]
  ELSE
  LET classNode == storage[className] IN
  IF forcedId = Undefined /\ payloadObj.kind = "undefined"
  THEN [res |-> "throw", storage |-> storage]
  ELSE
  LET id == ResolveId(payloadObj, classNode, forcedId) IN
  IF id = Undefined
  THEN [res |-> "false", storage |-> storage]
  ELSE
  LET withBranch == EnsureBranch(classNode)
      withInstance == EnsureInstance(withBranch, id)
      instance == getInstance(withInstance, id).map
  IN
  IF getInstance(withBranch, id).kind = "TypeError"
  THEN [res |-> "throw", storage |-> [storage EXCEPT ![className] = withBranch]]
  ELSE IF payloadObj.kind = "undefined"
  THEN [res |-> "throw", storage |-> [storage EXCEPT ![className] = withInstance]]
  ELSE [res |-> "true",
        storage |-> [storage EXCEPT ![className] =
                       setInstance(withInstance, id, StoreProps(classNode, instance, payloadObj))]]

\* the callbacks registered as fnGetSourceInstanceByKey: none, or a lookup in the
\* caller's collection, which holds one Hero with key "x" and nothing for other keys
SourceLookups == {Undefined, "findHero"}

CallSourceLookup(fnGetSourceInstanceByKey, key) ==
  IF key = "x"
  THEN Obj("Hero", "x", "x", "1", Undefined)
  ELSE UndefinedObject

\* faulty variant: the id is not handed on, stash takes it from the payload
stashByKeyKeyedByPayload(className, id, forcedPayload) ==
  IF className \notin DOMAIN storage
  THEN [res |-> "false", storage |-> storage, delegated |-> "none", invoked |-> "false"]
  ELSE
  LET classNode == storage[className] IN
  IF forcedPayload.kind = "undefined" /\ classNode.fnGetSourceInstanceByKey = Undefined
  THEN [res |-> "throw", storage |-> storage, delegated |-> "none", invoked |-> "false"]
  ELSE
  LET payload == IF forcedPayload.kind = "undefined"
                 THEN CallSourceLookup(classNode.fnGetSourceInstanceByKey, id)
                 ELSE forcedPayload
      stashed == stash(payload, className, Undefined)
  IN [res |-> IF stashed.res = "throw" THEN "throw" ELSE Undefined,
      storage |-> stashed.storage, delegated |-> stashed.res,
      invoked |-> IF forcedPayload.kind = "undefined" THEN "true" ELSE "false"]

\* faulty variant: no early return for an unregistered class, whose node is then read
stashByKeyUnguarded(className, id, forcedPayload) ==
  IF className \notin DOMAIN storage
  THEN [res |-> "throw", storage |-> storage, delegated |-> "none", invoked |-> "false"]
  ELSE
  LET classNode == storage[className]
      payload == IF forcedPayload.kind = "undefined"
                 THEN CallSourceLookup(classNode.fnGetSourceInstanceByKey, id)
                 ELSE forcedPayload
      stashed == stash(payload, className, id)
  IN [res |-> IF stashed.res = "throw" THEN "throw" ELSE Undefined,
      storage |-> stashed.storage, delegated |-> stashed.res,
      invoked |-> IF forcedPayload.kind = "undefined" THEN "true" ELSE "false"]

\* stashByKey(className, id, forcedPayload): the result, the storage afterwards,
\* the result of the stash it called ("none" when it called none) and whether the
\* callback was invoked.  Calling the
\* callback of a class registered without one raises a TypeError; the method has no
\* return statement after the stash, so that it then returns undefined.
stashByKey(className, id, forcedPayload) ==
  IF className \notin DOMAIN storage
  THEN [res |-> "false", storage |-> storage, delegated |-> "none", invoked |-> "false"]
  ELSE
  LET classNode == storage[className] IN
  IF forcedPayload.kind = "undefined" /\ classNode.fnGetSourceInstanceByKey = Undefined
  THEN [res |-> "throw", storage |-> storage, delegated |-> "none", invoked |-> "false"]
  ELSE
  LET payload == IF forcedPayload.kind = "undefined"
                 THEN CallSourceLookup(classNode.fnGetSourceInstanceByKey, id)
                 ELSE forcedPayload
      stashed == stash(payload, className, id)
  IN [res |-> IF stashed.res = "throw" THEN "throw" ELSE Undefined,
      storage |-> stashed.storage, delegated |-> stashed.res,
      invoked |-> IF forcedPayload.kind = "undefined" THEN "true" ELSE "false"]

-----------------------------------------------------------------------------
(* The arguments the callers pass.  Two applications drive the registry:     *)
(* "heroes" keeps one class, Hero, with two tracked properties and every     *)
(* choice of keyProp and callback; "cast" keeps two classes, Hero and        *)
(* Villain, with one tracked property each.                                  *)

Apps == {"heroes", "cast"}
AllBranches == {DefaultBranch} \cup BranchNames

\* (id, statefuldKey) of the objects: no key, id only, both
KeyCombos == {<<Undefined, Undefined>>, <<"x", Undefined>>, <<"x", "y">>}

RegisterArgs ==
  IF app = "heroes"
  THEN {StringSubject("Hero"), Obj("Hero", Undefined, Undefined, Undefined, Undefined)}
         \X {UndefinedDProps, ArrayDProps(<<>>), ArrayDProps(<<"a", "b">>),
             ArrayDProps(<<"b", "a", "b">>), SetDProps({}), SetDProps({"a", "b"})}
         \X {Undefined, "statefuldKey"}
         \X SourceLookups
  ELSE {StringSubject("Hero"), StringSubject("Villain")}
         \X {UndefinedDProps, ArrayDProps(<<"a">>), SetDProps({"a"})}
         \X {Undefined}
         \X {Undefined}

BranchArgs == {Undefined} \cup AllBranches

\* (payloadObj, forcedClassName, forcedId)
StashArgs ==
  IF app = "heroes"
  THEN {<<Obj("Hero", k[1], k[2], a, b), Undefined, forcedId>> :
          k \in KeyCombos, a \in OptValues, b \in OptValues, forcedId \in {Undefined, "y"}}
       \cup {<<Obj("Object", "x", Undefined, "1", "2"), forcedClassName, forcedId>> :
          forcedClassName \in {Undefined, "Hero", "Villain"}, forcedId \in {Undefined, "y"}}
  ELSE {<<Obj(ctor, id, Undefined, a, b), Undefined, forcedId>> :
          ctor \in ClassNames, id \in {Undefined, "x"}, a \in OptValues, b \in {Undefined, "1"},
          forcedId \in {Undefined, "y"}}

\* (targetObj, forcedClassName, forcedId)
ReassignArgs ==
  IF app = "heroes"
  THEN {<<Obj("Hero", k[1], k[2], v, v), Undefined, forcedId>> :
          k \in KeyCombos, v \in OptValues, forcedId \in {Undefined, "y"}}
       \cup {<<Obj("Object", "x", Undefined, "2", "2"), forcedClassName, forcedId>> :
          forcedClassName \in {Undefined, "Hero", "Villain"}, forcedId \in {Undefined, "y"}}
  ELSE {<<Obj(ctor, id, Undefined, v, v), Undefined, forcedId>> :
          ctor \in ClassNames, id \in {Undefined, "x"}, v \in OptValues,
          forcedId \in {Undefined, "y"}}

\* (className, id, forcedPayload)
StashByKeyArgs ==
  IF app = "heroes"
  THEN {"Hero", "Villain"} \X InstanceIds
         \X {UndefinedObject, Obj("Object", "y", Undefined, "2", Undefined),
             Obj("Object", Undefined, Undefined, Undefined, "2")}
  ELSE ClassNames \X InstanceIds \X {UndefinedObject, Obj("Object", Undefined, Undefined, "2", "1")}

\* the (class, branch, id) triples that have an instance record
StoredKeys(st) ==
  { k \in ClassNames \X AllBranches \X InstanceIds :
      /\ k[1] \in DOMAIN st
      /\ k[2] \in DOMAIN st[k[1]].branchNodes
      /\ k[3] \in DOMAIN st[k[1]].branchNodes[k[2]] }

WithinBounds(st) == Cardinality(StoredKeys(st)) <= MaxRecords

-----------------------------------------------------------------------------
(* The state machine: a caller makes one call at a time *)

\* the registry as the call found it
Pre == [storage |-> storage, currentBranch |-> currentBranch]

NoCall == [op |-> "none", args |-> <<>>, res |-> Undefined, out |-> UndefinedObject, pre |-> <<>>]

\* history of a successful stash of payloadObj under (className, currentBranch, id):
\* per tracked property, the value of the latest payload that had it defined
Logged(className, id, payloadObj) ==
  LET key == <<className, currentBranch, id>>
      old == IF key \in DOMAIN stashLog THEN stashLog[key] ELSE EmptyMap
      defined == {p \in storage[className].dProps : payloadObj.props[p] # Undefined}
  IN MapSet(stashLog, key,
            [p \in (DOMAIN old) \cup defined |->
               IF p \in defined THEN payloadObj.props[p] ELSE old[p]])

\* no call is running line by line
NoFrame == [pc |-> "idle", className |-> Undefined, id |-> Undefined, instance |-> Undefined,
            switched |-> "false", used |-> {}]

\* no instance of a wrapped class is alive
NoComponents == [slot \in {} |-> UndefinedObject]

Init ==
  /\ storage = EmptyMap
  /\ currentBranch = DefaultBranch
  /\ last = NoCall
  /\ stashLog = EmptyMap
  /\ app \in Apps
  /\ components = NoComponents
  /\ frame = NoFrame

RegisterClass ==
  /\ last.op = "none"
  /\ \E args \in RegisterArgs :
       LET r == registerClass(args[1], args[2], args[3], args[4]) IN
       /\ storage' = r.storage
       /\ last' = [op |-> "registerClass",
                   args |-> [subjectClass |-> args[1], dProps |-> args[2], keyProp |-> args[3],
                             fnGetSourceInstanceByKey |-> args[4]],
                   res |-> r.res, out |-> UndefinedObject, pre |-> Pre]
  /\ UNCHANGED <<currentBranch, stashLog, app, components, frame>>

Switch ==
  /\ last.op = "none"
  /\ \E branch \in BranchArgs :
       LET r == switch(branch) IN
       /\ currentBranch' = r.currentBranch
       /\ last' = [op |-> "switch", args |-> [branch |-> branch],
                   res |-> r.res, out |-> UndefinedObject, pre |-> Pre]
  /\ UNCHANGED <<storage, stashLog, app, components, frame>>

Reassign ==
  /\ last.op = "none"
  /\ \E args \in ReassignArgs :
       LET r == reassign(args[1], args[2], args[3]) IN
       /\ storage' = r.storage
       /\ last' = [op |-> "reassign",
                   args |-> [obj |-> args[1], forcedClassName |-> args[2], forcedId |-> args[3]],
                   res |-> r.res, out |-> r.target, pre |-> Pre]
  /\ UNCHANGED <<currentBranch, stashLog, app, components, frame>>

Stash ==
  /\ last.op = "none"
  /\ \E args \in StashArgs :
       LET r == stash(args[1], args[2], args[3]) IN
       /\ WithinBounds(r.storage)
       /\ storage' = r.storage
       /\ stashLog' = IF r.res = "true"
                      THEN LET className == ResolveClassName(args[1], args[2])
                           IN Logged(className, ResolveId(args[1], storage[className], args[3]),
                                     args[1])
                      ELSE stashLog
       /\ last' = [op |-> "stash",
                   args |-> [obj |-> args[1], forcedClassName |-> args[2], forcedId |-> args[3]],
                   res |-> r.res, out |-> args[1], pre |-> Pre]
  /\ UNCHANGED <<currentBranch, app, components, frame>>

StashByKey ==
  /\ last.op = "none"
  /\ \E args \in StashByKeyArgs :
       LET r == stashByKey(args[1], args[2], args[3]) IN
       /\ WithinBounds(r.storage)
       /\ storage' = r.storage
       /\ stashLog' = IF r.delegated = "true"
                      THEN Logged(args[1], args[2],
                                  IF args[3].kind = "undefined"
                                  THEN CallSourceLookup(storage[args[1]].fnGetSourceInstanceByKey,
                                                        args[2])
                                  ELSE args[3])
                      ELSE stashLog
       /\ last' = [op |-> "stashByKey",
                   args |-> [className |-> args[1], id |-> args[2], obj |-> args[3],
                             delegated |-> r.delegated],
                   res |-> r.res, out |-> UndefinedObject, pre |-> Pre]
  /\ UNCHANGED <<currentBranch, app, components, frame>>

\* the call has returned; the caller goes on to its next call
Return ==
  /\ last.op # "none"
  /\ last' = NoCall
  /\ UNCHANGED <<storage, currentBranch, stashLog, app, components, frame>>

Next == RegisterClass \/ Switch \/ Reassign \/ Stash \/ StashByKey \/ Return

Spec == Init /\ [][Next]_vars

-----------------------------------------------------------------------------
(* The lifecycle integration: FnStatefuldMixin, applied by the Statefuld      *)
(* decorator and by the StatefuldClass base class.  The framework constructs  *)
(* components, calls ngOnInit on them, lets the user edit their fields and    *)
(* calls ngOnDestroy on them, one hook at a time.                             *)

MaxLive == 1   \* components alive at the same time

\* config: an array of property names, or a StatefuldConfig
ArrayConfig(names) == [kind |-> "array", elems |-> names]
StatefuldConfig(dProps, keyProp, fnGetSourceInstanceByKey) ==
  [kind |-> "config", dProps |-> dProps, keyProp |-> keyProp,
   fnGetSourceInstanceByKey |-> fnGetSourceInstanceByKey]

\* the wrapped classes of the application: Hero and Villain are decorated, Sidekick
\* extends StatefuldClass(config) and overrides neither hook
WrappedClasses == {"Hero", "Villain", "Sidekick"}

Wrapping(decl) ==
  CASE decl = "Hero" -> [variant |-> "decorator", config |-> ArrayConfig(<<"a">>)]
    [] decl = "Villain" -> [variant |-> "decorator",
                            config |-> StatefuldConfig(<<"b">>, "id", Undefined)]
    [] decl = "Sidekick" -> [variant |-> "baseclass", config |-> ArrayConfig(<<"a", "b">>)]

\* the hooks the decorated classes define themselves: Hero.ngOnInit shows in b the
\* value of a, Hero.ngOnDestroy clears a; Villain defines none.  The class{} that
\* StatefuldClass extends defines none.
HasNgOnInit(decl) == decl = "Hero"
HasNgOnDestroy(decl) == decl = "Hero"
SuperNgOnInit(decl, obj) == [obj EXCEPT !.props["b"] = obj.props["a"]]
SuperNgOnDestroy(decl, obj) == [obj EXCEPT !.props["a"] = Undefined]

\* const _dProps = config instanceof Array ? config : config.dProps
MixinDProps(config) == IF config.kind = "array" THEN config.elems ELSE config.dProps

\* const _keyProp = !(config instanceof Array) && config.keyProp !== undefined
\*                    ? config.keyProp : 'statefuldKey'
MixinKeyProp(config) ==
  IF config.kind # "array" /\ config.keyProp # Undefined THEN config.keyProp ELSE "statefuldKey"

\* const _fnGetSourceInstanceByKey = ... config.fnGetSourceInstanceByKey ... : undefined
MixinSourceLookup(config) ==
  IF config.kind # "array" /\ config.fnGetSourceInstanceByKey # Undefined
  THEN config.fnGetSourceInstanceByKey ELSE Undefined

\* The class the mixin returns is an anonymous class expression that extends the
\* wrapped class.  What this.constructor.name yields on an instance is up to the
\* build: where an anonymous class has no name of its own the name of the class it
\* extends is inherited; where it has one, it is the same for every decorated
\* class.  A class that extends StatefuldClass(config) has its own name.
AnonymousName == ""
Builds == {"named", "anonymous"}

ConstructorName(decl) ==
  IF Wrapping(decl).variant = "decorator" /\ app = "anonymous" THEN AnonymousName ELSE decl

\* constructor: super(...args); statefuld.registerClass(this.constructor.name, _dProps,
\* _keyProp, _fnGetSourceInstanceByKey)
MixinConstructor(decl, obj) ==
  registerClass(StringSubject(obj.ctor), ArrayDProps(MixinDProps(Wrapping(decl).config)),
                MixinKeyProp(Wrapping(decl).config), MixinSourceLookup(Wrapping(decl).config))

\* statefuldStash(): return statefuld.stash(this)
statefuldStash(obj) == stash(obj, Undefined, Undefined)

\* statefuldReassign(): return statefuld.reassign(this)
statefuldReassign(obj) == reassign(obj, Undefined, Undefined)

\* ngOnInit(): this.statefuldReassign(); if (super.ngOnInit !== undefined) super.ngOnInit()
ngOnInit(decl, obj) ==
  LET r == statefuldReassign(obj)
  IN [res |-> r.res,
      component |-> IF HasNgOnInit(decl) THEN SuperNgOnInit(decl, r.target) ELSE r.target]

\* faulty variant: the class's own ngOnDestroy runs first
ngOnDestroyAfterOwn(decl, obj) ==
  LET own == IF HasNgOnDestroy(decl) THEN SuperNgOnDestroy(decl, obj) ELSE obj
      s == statefuldStash(own)
  IN [res |-> s.res, storage |-> s.storage, component |-> own]

\* ngOnDestroy(): this.statefuldStash(); if (super.ngOnDestroy !== undefined) super.ngOnDestroy()
ngOnDestroy(decl, obj) ==
  LET s == statefuldStash(obj)
  IN [res |-> s.res, storage |-> s.storage,
      component |-> IF HasNgOnDestroy(decl) THEN SuperNgOnDestroy(decl, obj) ELSE obj]

\* the places of the components alive
Slots == 1..MaxLive

\* the (class, branch, id) triples that have an instance record, whatever the class
RecordKeys(st) ==
  { k \in (DOMAIN st) \X AllBranches \X InstanceIds :
      /\ k[2] \in DOMAIN st[k[1]].branchNodes
      /\ k[3] \in DOMAIN st[k[1]].branchNodes[k[2]] }

\* history of an ngOnDestroy of a component of a wrapped class whose key property
\* is defined: per property the configuration names, the value the latest destroyed
\* component of this class and key held defined, by branch
Shelved(decl, obj) ==
  LET config == Wrapping(decl).config
      key == <<decl, currentBranch, obj.props[MixinKeyProp(config)]>>
      old == IF key \in DOMAIN stashLog THEN stashLog[key] ELSE EmptyMap
      defined == {p \in Range(MixinDProps(config)) : obj.props[p] # Undefined}
  IN IF obj.props[MixinKeyProp(config)] = Undefined THEN stashLog
     ELSE MapSet(stashLog, key,
                 [p \in (DOMAIN old) \cup defined |->
                    IF p \in defined THEN obj.props[p] ELSE old[p]])

LifecycleInit ==
  /\ storage = EmptyMap
  /\ currentBranch = DefaultBranch
  /\ last = NoCall
  /\ stashLog = EmptyMap
  /\ app \in Builds
  /\ components = NoComponents
  /\ frame = NoFrame

\* new Hero(...): the constructor of the mixin runs, the framework binds the inputs
Construct ==
  /\ last.op = "none"
  /\ \E slot \in Slots \ DOMAIN components : \E decl \in WrappedClasses : \E k \in KeyCombos :
       LET obj == Obj(ConstructorName(decl), k[1], k[2], Undefined, Undefined)
           r == MixinConstructor(decl, obj)
       IN /\ storage' = r.storage
          /\ components' = MapSet(components, slot,
                                  [decl |-> decl, phase |-> "constructed", obj |-> obj])
          /\ last' = [op |-> "construct", args |-> [decl |-> decl, obj |-> obj],
                      res |-> r.res, out |-> obj, pre |-> Pre]
  /\ UNCHANGED <<currentBranch, stashLog, app, frame>>

NgOnInit ==
  /\ last.op = "none"
  /\ \E slot \in DOMAIN components :
       LET c == components[slot]
           r == ngOnInit(c.decl, c.obj)
       IN /\ c.phase = "constructed"
          /\ components' = [components EXCEPT ![slot] =
                              [decl |-> c.decl, phase |-> "initialised", obj |-> r.component]]
          /\ last' = [op |-> "ngOnInit", args |-> [decl |-> c.decl, obj |-> c.obj],
                      res |-> r.res, out |-> r.component, pre |-> Pre]
  /\ UNCHANGED <<storage, currentBranch, stashLog, app, frame>>

\* the user fills in one of the persisted fields of a component on screen
Edit ==
  /\ last.op = "none"
  /\ \E slot \in DOMAIN components : \E p \in DataProps : \E v \in Values :
       /\ components[slot].phase = "initialised"
       /\ p \in Range(MixinDProps(Wrapping(components[slot].decl).config))
       /\ components[slot].obj.props[p] # v
       /\ components' = [components EXCEPT ![slot].obj.props[p] = v]
  /\ UNCHANGED <<storage, currentBranch, last, stashLog, app, frame>>

NgOnDestroy ==
  /\ last.op = "none"
  /\ \E slot \in DOMAIN components :
       LET c == components[slot]
           r == ngOnDestroy(c.decl, c.obj)
       IN /\ c.phase = "initialised"
          /\ Cardinality(RecordKeys(r.storage)) <= MaxRecords
          /\ storage' = r.storage
          /\ stashLog' = Shelved(c.decl, c.obj)
          /\ components' = [s \in (DOMAIN components) \ {slot} |-> components[s]]
          /\ last' = [op |-> "ngOnDestroy", args |-> [decl |-> c.decl, obj |-> c.obj],
                      res |-> r.res, out |-> r.component, pre |-> Pre]
  /\ UNCHANGED <<currentBranch, app, frame>>

LifecycleNext == Construct \/ NgOnInit \/ Edit \/ NgOnDestroy \/ Switch \/ Return

LifecycleSpec == LifecycleInit /\ [][LifecycleNext]_vars

-----------------------------------------------------------------------------
(* stash and reassign line by line.  A call is a sequence of steps, one per  *)
(* statement that reads or writes the registry; every step reads              *)
(* currentBranch anew, as the code does (this.currentBranch at lines 122,    *)
(* 161 and 162, getCurrentBranch() inside getInstance and setInstance).  A   *)
(* second caller switches the branch: under the scheduling "locked" only     *)
(* between the calls of the first, under "interleaved" also between the      *)
(* steps of a call.  frame.used collects the branches the call has looked up *)
(* and frame.switched tells whether the branch was switched under the call.  *)

Schedulings == {"locked", "interleaved"}

StepInit ==
  /\ storage = EmptyMap
  /\ currentBranch = DefaultBranch
  /\ last = NoCall
  /\ stashLog = EmptyMap
  /\ app \in Schedulings
  /\ components = NoComponents
  /\ frame = NoFrame

\* the call ends with this result (and this target, for reassign), having looked up
\* the branches in lookedUp
Finished(res, out, lookedUp) ==
  /\ last' = [last EXCEPT !.res = res, !.out = out]
  /\ frame' = [frame EXCEPT !.pc = "done", !.used = @ \cup lookedUp]

\* the call goes on at the line pc, having looked up the branches in lookedUp
GoesOn(pc, lookedUp) ==
  /\ frame' = [frame EXCEPT !.pc = pc, !.used = @ \cup lookedUp]
  /\ UNCHANGED last

\* stash, lines 149-160: the class and the id are resolved
StashBegin ==
  /\ last.op = "none"
  /\ \E args \in StashArgs :
       LET className == ResolveClassName(args[1], args[2])
           call == [op |-> "stash",
                    args |-> [obj |-> args[1], forcedClassName |-> args[2], forcedId |-> args[3]],
                    res |-> "running", out |-> args[1], pre |-> Pre]
       IN IF className = Undefined \/ className \notin DOMAIN storage
          THEN /\ last' = [call EXCEPT !.res = "false"]
               /\ frame' = [NoFrame EXCEPT !.pc = "done"]
          ELSE LET id == ResolveId(args[1], storage[className], args[3]) IN
               IF id = Undefined
               THEN /\ last' = [call EXCEPT !.res = "false"]
                    /\ frame' = [NoFrame EXCEPT !.pc = "done"]
               ELSE /\ \A b \in AllBranches :
                         Cardinality(StoredKeys(storage) \cup {<<className, b, id>>}) <= MaxRecords
                    /\ last' = call
                    /\ frame' = [NoFrame EXCEPT !.pc = "161", !.className = className, !.id = id]
  /\ UNCHANGED <<storage, currentBranch, stashLog, app, components>>

\* line 161: if (!classNode.branchNodes.has(this.currentBranch))
Stash161 ==
  /\ frame.pc = "161"
  /\ IF currentBranch \notin DOMAIN storage[frame.className].branchNodes
     THEN GoesOn("162", {currentBranch})
     ELSE GoesOn("165", {currentBranch})
  /\ UNCHANGED <<storage, currentBranch, stashLog, app, components>>

\* faulty variant: the branch found missing is not created
Stash162Skipping ==
  /\ frame.pc = "162"
  /\ GoesOn("165", {currentBranch})
  /\ UNCHANGED <<storage, currentBranch, stashLog, app, components>>

\* line 162: classNode.branchNodes.set(this.currentBranch, new Map())
Stash162 ==
  /\ frame.pc = "162"
  /\ storage' = [storage EXCEPT ![frame.className].branchNodes = MapSet(@, currentBranch, EmptyMap)]
  /\ GoesOn("165", {currentBranch})
  /\ UNCHANGED <<currentBranch, stashLog, app, components>>

\* line 165: if (classNode.getInstance(id) === undefined)
Stash165 ==
  /\ frame.pc = "165"
  /\ LET found == getInstance(storage[frame.className], frame.id) IN
     CASE found.kind = "TypeError" ->
            Finished("throw", last.out, {currentBranch})
       [] found.kind = "undefined" -> GoesOn("166", {currentBranch})
       [] found.kind = "map" -> GoesOn("168", {currentBranch})
  /\ UNCHANGED <<storage, currentBranch, stashLog, app, components>>

\* line 166: classNode.setInstance(id, new Map())
Stash166 ==
  /\ frame.pc = "166"
  /\ IF currentBranch \notin DOMAIN storage[frame.className].branchNodes
     THEN /\ Finished("throw", last.out, {currentBranch})
          /\ UNCHANGED storage
     ELSE /\ storage' = [storage EXCEPT ![frame.className] = setInstance(@, frame.id, EmptyMap)]
          /\ GoesOn("168", {currentBranch})
  /\ UNCHANGED <<currentBranch, stashLog, app, components>>

\* line 168: const instance = classNode.getInstance(id)
Stash168 ==
  /\ frame.pc = "168"
  /\ LET found == getInstance(storage[frame.className], frame.id) IN
     CASE found.kind = "TypeError" -> Finished("throw", last.out, {currentBranch})
       [] found.kind = "undefined" ->
            /\ frame' = [frame EXCEPT !.pc = "169", !.instance = Undefined,
                                      !.used = @ \cup {currentBranch}]
            /\ UNCHANGED last
       [] found.kind = "map" ->
            /\ frame' = [frame EXCEPT !.pc = "169", !.instance = currentBranch,
                                      !.used = @ \cup {currentBranch}]
            /\ UNCHANGED last
  /\ UNCHANGED <<storage, currentBranch, stashLog, app, components>>

\* lines 169-172: the defined tracked properties are set on instance, which is the
\* record line 168 found, whatever the branch now current; return true
Stash169 ==
  /\ frame.pc = "169"
  /\ LET classNode == storage[frame.className]
         payloadObj == last.args.obj
     IN IF frame.instance = Undefined
        THEN /\ IF \E p \in classNode.dProps : payloadObj.props[p] # Undefined
                THEN Finished("throw", last.out, {})
                ELSE Finished("true", last.out, {})
             /\ UNCHANGED storage
        ELSE /\ storage' = [storage EXCEPT
                  ![frame.className].branchNodes[frame.instance][frame.id] =
                     StoreProps(classNode, @, payloadObj)]
             /\ Finished("true", last.out, {})
  /\ UNCHANGED <<currentBranch, stashLog, app, components>>

\* reassign, lines 111-121: the class and the id are resolved
ReassignBegin ==
  /\ last.op = "none"
  /\ \E args \in ReassignArgs :
       LET className == ResolveClassName(args[1], args[2])
           call == [op |-> "reassign",
                    args |-> [obj |-> args[1], forcedClassName |-> args[2], forcedId |-> args[3]],
                    res |-> "running", out |-> args[1], pre |-> Pre]
       IN IF className = Undefined \/ className \notin DOMAIN storage
          THEN /\ last' = [call EXCEPT !.res = "false"]
               /\ frame' = [NoFrame EXCEPT !.pc = "done"]
          ELSE LET id == ResolveId(args[1], storage[className], args[3]) IN
               IF id = Undefined
               THEN /\ last' = [call EXCEPT !.res = "false"]
                    /\ frame' = [NoFrame EXCEPT !.pc = "done"]
               ELSE /\ last' = call
                    /\ frame' = [NoFrame EXCEPT !.pc = "122", !.className = className, !.id = id]
  /\ UNCHANGED <<storage, currentBranch, stashLog, app, components>>

\* faulty variant: the test of line 122 is left out
Reassign122Unguarded ==
  /\ frame.pc = "122"
  /\ GoesOn("126", {currentBranch})
  /\ UNCHANGED <<storage, currentBranch, stashLog, app, components>>

\* line 122: if (!classNode.branchNodes.has(this.currentBranch)) return false
Reassign122 ==
  /\ frame.pc = "122"
  /\ IF currentBranch \notin DOMAIN storage[frame.className].branchNodes
     THEN Finished("false", last.out, {currentBranch})
     ELSE GoesOn("126", {currentBranch})
  /\ UNCHANGED <<storage, currentBranch, stashLog, app, components>>

\* line 126: if (classNode.getInstance(id) === undefined) return false
Reassign126 ==
  /\ frame.pc = "126"
  /\ LET found == getInstance(storage[frame.className], frame.id) IN
     CASE found.kind = "TypeError" -> Finished("throw", last.out, {currentBranch})
       [] found.kind = "undefined" -> Finished("false", last.out, {currentBranch})
       [] found.kind = "map" -> GoesOn("130", {currentBranch})
  /\ UNCHANGED <<storage, currentBranch, stashLog, app, components>>

\* line 130: const instance = classNode.getInstance(id)
Reassign130 ==
  /\ frame.pc = "130"
  /\ LET found == getInstance(storage[frame.className], frame.id) IN
     CASE found.kind = "TypeError" -> Finished("throw", last.out, {currentBranch})
       [] found.kind = "undefined" ->
            /\ frame' = [frame EXCEPT !.pc = "131", !.instance = Undefined,
                                      !.used = @ \cup {currentBranch}]
            /\ UNCHANGED last
       [] found.kind = "map" ->
            /\ frame' = [frame EXCEPT !.pc = "131", !.instance = currentBranch,
                                      !.used = @ \cup {currentBranch}]
            /\ UNCHANGED last
  /\ UNCHANGED <<storage, currentBranch, stashLog, app, components>>

\* lines 131-134: the stored tracked properties of instance are assigned to the
\* target (instance.has raises a TypeError on undefined); return true
Reassign131 ==
  /\ frame.pc = "131"
  /\ IF frame.instance = Undefined
     THEN Finished("throw", last.out, {})
     ELSE LET classNode == storage[frame.className]
              instance == classNode.branchNodes[frame.instance][frame.id]
          IN Finished("true", AssignProps(classNode, instance, last.args.obj), {})
  /\ UNCHANGED <<storage, currentBranch, stashLog, app, components>>

\* the second caller calls switch(branch): between the calls of the first, and
\* where calls are not locked also between the steps of a call
StepSwitch ==
  /\ last.op = "none" \/ (last.res = "running" /\ app = "interleaved")
  /\ \E branch \in BranchArgs :
       LET r == switch(branch) IN
       /\ currentBranch' = r.currentBranch
       /\ frame' = IF last.res = "running" /\ r.currentBranch # currentBranch
                   THEN [frame EXCEPT !.switched = "true"]
                   ELSE frame
  /\ UNCHANGED <<storage, last, stashLog, app, components>>

\* the call has returned or thrown; the caller goes on to its next call
StepReturn ==
  /\ last.op # "none" /\ last.res # "running"
  /\ last' = NoCall
  /\ frame' = NoFrame
  /\ UNCHANGED <<storage, currentBranch, stashLog, app, components>>

StepNext ==
  \/ RegisterClass
  \/ StashBegin \/ Stash161 \/ Stash162 \/ Stash165 \/ Stash166 \/ Stash168 \/ Stash169
  \/ ReassignBegin \/ Reassign122 \/ Reassign126 \/ Reassign130 \/ Reassign131
  \/ StepSwitch
  \/ StepReturn

StepSpec == StepInit /\ [][StepNext]_vars

-----------------------------------------------------------------------------
(* The properties.  They are stated in the terms of the specification: the   *)
(* class a call addresses is the forced class name or else the runtime type  *)
(* name of its object, the instance it addresses is the forced id or else    *)
(* the value of the key property of its object.                              *)

AddressedClass(args) ==
  IF args.forcedClassName # Undefined THEN args.forcedClassName ELSE args.obj.ctor

AddressedId(args, keyProp) ==
  IF args.forcedId # Undefined THEN args.forcedId ELSE args.obj.props[keyProp]

\* the class named by a registerClass call
NamedClass(args) ==
  IF args.subjectClass.kind = "string" THEN args.subjectClass.value ELSE args.subjectClass.ctor

\* the names a registerClass call supplies, as an array or as a set
SuppliedNames(dProps) ==
  CASE dProps.kind = "array" -> Range(dProps.elems)
    [] dProps.kind = "set" -> dProps.elems
    [] OTHER -> {}

\* the instance record of a (class, branch, id) triple that has one
RecordOf(st, key) == st[key[1]].branchNodes[key[2]][key[3]]

\* C1 (round trip): after a successful stash of o under class c and instance id k,
\* every reassign that addresses c and k while the same branch is current returns
\* true and leaves in its target, for every tracked property that o defines, the
\* value o has.
RoundTrip ==
  (last.op = "stash" /\ last.res = "true") =>
    LET o == last.args.obj
        c == AddressedClass(last.args)
        k == AddressedId(last.args, storage[c].keyProp)
    IN \A r \in ReassignArgs :
         LET rargs == [obj |-> r[1], forcedClassName |-> r[2], forcedId |-> r[3]] IN
         (AddressedClass(rargs) = c /\ AddressedId(rargs, storage[c].keyProp) = k) =>
           /\ reassign(r[1], r[2], r[3]).res = "true"
           /\ \A p \in storage[c].dProps :
                o.props[p] # Undefined => reassign(r[1], r[2], r[3]).target.props[p] = o.props[p]

\* a stash of {a: "1", b: "2"} has succeeded and a target holding other values
\* addresses the same class and id
RoundTripWitness ==
  /\ last.op = "stash" /\ last.res = "true"
  /\ last.args.obj.props["a"] = "1" /\ last.args.obj.props["b"] = "2"
  /\ \E r \in ReassignArgs :
       LET rargs == [obj |-> r[1], forcedClassName |-> r[2], forcedId |-> r[3]]
           c == AddressedClass(last.args)
       IN /\ AddressedClass(rargs) = c
          /\ AddressedId(rargs, storage[c].keyProp) = AddressedId(last.args, storage[c].keyProp)
          /\ r[1].props["a"] = "2"
          /\ reassign(r[1], r[2], r[3]).target.props["a"] = "1"

\* C2 (field-level upsert merge): for every (class, branch, id) stashed to, the
\* stored value of each tracked property is the value of the latest successful
\* stash whose payload defined it, and a property no such payload defined has
\* no stored value.
StashIsUpsertMerge ==
  \A key \in DOMAIN stashLog :
    /\ key \in StoredKeys(storage)
    /\ \A p \in storage[key[1]].dProps :
         /\ (p \in DOMAIN RecordOf(storage, key)) = (p \in DOMAIN stashLog[key])
         /\ p \in DOMAIN stashLog[key] => RecordOf(storage, key)[p] = stashLog[key][p]

\* a stash of {b: "2"} onto the record {a: "1", b: "1"} has left {a: "1", b: "2"}
StashIsUpsertMergeWitness ==
  /\ last.op = "stash" /\ last.res = "true"
  /\ last.args.obj.props["a"] = Undefined /\ last.args.obj.props["b"] = "2"
  /\ LET c == AddressedClass(last.args)
         key == <<c, currentBranch, AddressedId(last.args, storage[c].keyProp)>>
     IN /\ key \in StoredKeys(last.pre.storage)
        /\ RecordOf(last.pre.storage, key) = [p \in {"a", "b"} |-> "1"]
        /\ RecordOf(storage, key) = [p \in {"a", "b"} |-> IF p = "a" THEN "1" ELSE "2"]

\* C3 (branch isolation): a reassign returns true only if a stash for the class and
\* id it addresses has succeeded while the branch now current was current.
BranchIsolation ==
  (last.op = "reassign" /\ last.res = "true") =>
    LET c == AddressedClass(last.args) IN
    <<c, currentBranch, AddressedId(last.args, storage[c].keyProp)>> \in DOMAIN stashLog

\* C4 (a class is registered at most once): registerClass for a registered class
\* returns false and leaves the registry as it was; for an unregistered class and a
\* non-empty array of names it returns true and registers the class.
RegisteredAtMostOnce ==
  last.op = "registerClass" =>
    IF NamedClass(last.args) \in DOMAIN last.pre.storage
    THEN /\ last.res = "false"
         /\ storage = last.pre.storage
         /\ currentBranch = last.pre.currentBranch
    ELSE (last.args.dProps.kind = "array" /\ SuppliedNames(last.args.dProps) # {}) =>
           /\ last.res = "true"
           /\ NamedClass(last.args) \in DOMAIN storage

\* a class registered with the default key, holding a record, has been registered
\* again with a valid list and another key property
RegisteredAtMostOnceWitness ==
  /\ last.op = "registerClass" /\ last.res = "false"
  /\ NamedClass(last.args) \in DOMAIN last.pre.storage
  /\ last.args.dProps = ArrayDProps(<<"a", "b">>)
  /\ last.args.keyProp = "statefuldKey"
  /\ storage[NamedClass(last.args)].keyProp = DefaultKeyProp
  /\ \E key \in StoredKeys(storage) : key[1] = NamedClass(last.args)

\* C5 (arrays and sets of names): registerClass for an unregistered class with a
\* non-empty collection of names, array or set, returns true and registers the
\* class with exactly these names.
RegisterAcceptsArrayOrSet ==
  (/\ last.op = "registerClass"
   /\ NamedClass(last.args) \notin DOMAIN last.pre.storage
   /\ SuppliedNames(last.args.dProps) # {}) =>
    /\ last.res = "true"
    /\ NamedClass(last.args) \in DOMAIN storage
    /\ storage[NamedClass(last.args)].dProps = SuppliedNames(last.args.dProps)

\* C6 (empty registration): registerClass with an undefined or empty list of names
\* returns false and leaves the registry as it was; where the class is then still
\* unregistered, every stash and reassign addressing it fails and registerClass with
\* a non-empty array of names succeeds.
EmptyRegistrationRejected ==
  (last.op = "registerClass" /\ SuppliedNames(last.args.dProps) = {}) =>
    /\ last.res = "false"
    /\ storage = last.pre.storage
    /\ NamedClass(last.args) \notin DOMAIN storage =>
         /\ \A s \in StashArgs :
              AddressedClass([obj |-> s[1], forcedClassName |-> s[2]]) = NamedClass(last.args)
                => stash(s[1], s[2], s[3]).res = "false"
         /\ \A r \in ReassignArgs :
              AddressedClass([obj |-> r[1], forcedClassName |-> r[2]]) = NamedClass(last.args)
                => reassign(r[1], r[2], r[3]).res = "false"
         /\ \A g \in RegisterArgs :
              (/\ NamedClass([subjectClass |-> g[1]]) = NamedClass(last.args)
               /\ g[2].kind = "array" /\ SuppliedNames(g[2]) # {})
                => registerClass(g[1], g[2], g[3], g[4]).res = "true"

\* an unregistered class has been registered with an empty array, and there are a
\* stash addressing the class and a registration of it with a non-empty array
EmptyRegistrationRejectedWitness ==
  /\ last.op = "registerClass" /\ last.args.dProps = ArrayDProps(<<>>)
  /\ NamedClass(last.args) \notin DOMAIN storage
  /\ \E s \in StashArgs :
       AddressedClass([obj |-> s[1], forcedClassName |-> s[2]]) = NamedClass(last.args)
  /\ \E g \in RegisterArgs :
       /\ NamedClass([subjectClass |-> g[1]]) = NamedClass(last.args)
       /\ g[2].kind = "array" /\ SuppliedNames(g[2]) # {}

\* the class a stash, reassign or stashByKey call addresses
CallClass ==
  IF last.op = "stashByKey" THEN last.args.className ELSE AddressedClass(last.args)

\* C7 (unregistered class): stash, reassign and stashByKey addressing a class that is
\* not registered return false and leave storage and currentBranch as they were;
\* reassign leaves its target as it was.
UnregisteredClassFails ==
  (last.op \in {"stash", "reassign", "stashByKey"} /\ CallClass \notin DOMAIN last.pre.storage) =>
    /\ last.res = "false"
    /\ storage = last.pre.storage
    /\ currentBranch = last.pre.currentBranch
    /\ last.op = "reassign" => last.out = last.args.obj

\* stashByKey with a payload has addressed an unregistered class while another class
\* is registered
UnregisteredClassFailsWitness ==
  /\ last.op = "stashByKey"
  /\ last.args.className \notin DOMAIN last.pre.storage
  /\ last.args.obj.kind = "object"
  /\ DOMAIN storage # {}

\* a stash or reassign call on a registered class with no forced id and no value of
\* the key property in its object
IdMissing ==
  /\ last.op \in {"stash", "reassign"}
  /\ CallClass \in DOMAIN last.pre.storage
  /\ AddressedId(last.args, last.pre.storage[CallClass].keyProp) = Undefined

\* C8 (missing identifier): stash and reassign on a registered class, with no forced
\* id and the key property of the object undefined, return false; nothing is
\* written, no branch and no instance record is created.
MissingIdentifierFails ==
  IdMissing => last.res = "false" /\ storage = last.pre.storage

\* a stash of an object that has an id, to a class keyed by statefuldKey that has no
\* record for the current branch yet
MissingIdentifierFailsWitness ==
  /\ IdMissing /\ last.op = "stash"
  /\ last.args.obj.props["id"] = "x" /\ last.args.obj.props["a"] = "1"
  /\ currentBranch \notin DOMAIN storage[CallClass].branchNodes

\* C9 (reassign is read-only): whatever a reassign returns, storage and
\* currentBranch are after the call what they were before it.
ReassignIsReadOnly ==
  last.op = "reassign" =>
    storage = last.pre.storage /\ currentBranch = last.pre.currentBranch

\* a reassign has missed on a registered class that has no record for the current
\* branch, another branch of it holding a record
ReassignIsReadOnlyWitness ==
  /\ last.op = "reassign" /\ last.res = "false"
  /\ CallClass \in DOMAIN storage
  /\ AddressedId(last.args, storage[CallClass].keyProp) # Undefined
  /\ currentBranch \notin DOMAIN storage[CallClass].branchNodes
  /\ DOMAIN storage[CallClass].branchNodes # {}

\* C10 (a miss leaves the target): a reassign that returns false leaves every field
\* of its target as it was.
ReassignMissLeavesTarget ==
  (last.op = "reassign" /\ last.res = "false") => last.out = last.args.obj

\* a reassign into a target holding values has missed for want of an instance record
\* in a branch that has other records
ReassignMissLeavesTargetWitness ==
  /\ last.op = "reassign" /\ last.res = "false"
  /\ last.args.obj.props["a"] = "2"
  /\ CallClass \in DOMAIN storage
  /\ currentBranch \in DOMAIN storage[CallClass].branchNodes
  /\ AddressedId(last.args, storage[CallClass].keyProp) \in InstanceIds
  /\ AddressedId(last.args, storage[CallClass].keyProp)
       \notin DOMAIN storage[CallClass].branchNodes[currentBranch]

\* C11 (what a successful reassign writes): a reassign that returns true leaves in
\* its target, for each tracked property that has an entry in the instance record,
\* the stored value, and every other field, tracked or not, as it was; no instance
\* record holds an entry for an untracked property.
ReassignWritesStoredTracked ==
  /\ \A key \in StoredKeys(storage) :
       DOMAIN RecordOf(storage, key) \subseteq storage[key[1]].dProps
  /\ (last.op = "reassign" /\ last.res = "true") =>
       LET c == CallClass
           record == RecordOf(storage, <<c, currentBranch, AddressedId(last.args, storage[c].keyProp)>>)
       IN /\ last.out.kind = last.args.obj.kind
          /\ last.out.ctor = last.args.obj.ctor
          /\ \A p \in Fields :
               last.out.props[p] = IF p \in storage[c].dProps /\ p \in DOMAIN record
                                   THEN record[p]
                                   ELSE last.args.obj.props[p]

\* a reassign has restored the tracked "a" and left alone the tracked "b", which has
\* no stored entry, and the fields of the key
ReassignWritesStoredTrackedWitness ==
  /\ last.op = "reassign" /\ last.res = "true"
  /\ storage[CallClass].dProps = {"a", "b"}
  /\ last.args.obj.props["a"] = "2" /\ last.out.props["a"] = "1"
  /\ last.args.obj.props["b"] = "2" /\ last.out.props["b"] = "2"
  /\ last.out.props["id"] = "x"

\* C12 (switch): switch returns true and leaves as current branch the branch
\* given, or "*" when none is given; it changes nothing else, and the same call
\* made again returns the same result in the same state.
SwitchSetsBranch ==
  last.op = "switch" =>
    /\ last.res = "true"
    /\ currentBranch = IF last.args.branch = Undefined THEN DefaultBranch ELSE last.args.branch
    /\ storage = last.pre.storage
    /\ switch(last.args.branch) = [res |-> "true", currentBranch |-> currentBranch]

\* switch() with no argument has left a named branch for "*"
SwitchSetsBranchWitness ==
  /\ last.op = "switch"
  /\ last.args.branch = Undefined
  /\ last.pre.currentBranch \in BranchNames
  /\ currentBranch = DefaultBranch

\* C13 (branch records come from successful stashes): a registered class has a
\* record for a branch exactly if a stash for the class has succeeded while that
\* branch was current.
BranchRecordsOnlyByStash ==
  \A c \in DOMAIN storage : \A b \in AllBranches :
    (b \in DOMAIN storage[c].branchNodes) <=> (\E key \in DOMAIN stashLog : key[1] = c /\ key[2] = b)

\* C14 (result of stashByKey): a stashByKey call that returns returns a boolean,
\* and on a registered class the result of the stash it has called.
StashByKeyReturnsStashResult ==
  (last.op = "stashByKey" /\ last.res # "throw") =>
    /\ last.res \in {"true", "false"}
    /\ last.args.delegated \in {"true", "false"} => last.res = last.args.delegated

\* C16 (no exceptions): no call of registerClass, switch, reassign, stash or
\* stashByKey ends in an exception.
NoCallThrows ==
  last.res # "throw"

\* C15 (stashByKey acts as stash): a stashByKey call on a registered class, with a
\* payload or with a registered callback, leaves the storage that stash leaves
\* when called with the class name, the id and the payload or else the object the
\* callback returns for the id; the callback is not invoked when a payload is
\* given; the only record that can appear is the one of the id in the current
\* branch; currentBranch is unchanged.
StashByKeyActsAsStash ==
  [][ (/\ last.op = "none" /\ last'.op = "stashByKey"
       /\ last'.args.className \in DOMAIN storage
       /\ \/ last'.args.obj.kind # "undefined"
          \/ storage[last'.args.className].fnGetSourceInstanceByKey # Undefined) =>
      LET c == last'.args.className
          k == last'.args.id
          obj == IF last'.args.obj.kind # "undefined" THEN last'.args.obj
                 ELSE CallSourceLookup(storage[c].fnGetSourceInstanceByKey, k)
      IN /\ storage' = stash(obj, c, k).storage
         /\ last'.args.delegated = stash(obj, c, k).res
         /\ last'.args.obj.kind # "undefined" =>
              stashByKey(c, k, last'.args.obj).invoked = "false"
         /\ StoredKeys(storage') \ StoredKeys(storage) \subseteq {<<c, currentBranch, k>>}
         /\ stash(obj, c, k).res = "true" => <<c, currentBranch, k>> \in StoredKeys(storage')
         /\ currentBranch' = currentBranch
    ]_vars

\* stashByKey for id "x" with a payload whose key property holds "y" has written
\* the record of "x", and there is no record of "y"
StashByKeyActsAsStashWitness ==
  /\ last.op = "stashByKey" /\ last.args.delegated = "true"
  /\ last.args.id = "x"
  /\ storage[last.args.className].keyProp = "id"
  /\ last.args.obj.props["id"] = "y" /\ last.args.obj.props["a"] = "2"
  /\ <<last.args.className, currentBranch, "x">> \in StoredKeys(storage)
  /\ RecordOf(storage, <<last.args.className, currentBranch, "x">>)["a"] = "2"
  /\ <<last.args.className, currentBranch, "y">> \notin StoredKeys(storage)

\* C17 (the branch of a call is the current branch): a successful stash leaves the
\* defined tracked properties of its payload in the record of the branch current at
\* the call and the records of the class in every other branch as they were; a
\* reassign returns true exactly if the record exists in the branch current at the
\* call, whatever other branches hold, and takes the stored values from it; the
\* node a registration creates is the same whichever branch is current.
CallsUseCurrentBranch ==
  /\ (last.op = "registerClass" /\ last.res = "true") =>
       storage[NamedClass(last.args)] =
         [dProps |-> SuppliedNames(last.args.dProps), branchNodes |-> EmptyMap,
          keyProp |-> IF last.args.keyProp = Undefined THEN "id" ELSE last.args.keyProp,
          fnGetSourceInstanceByKey |-> last.args.fnGetSourceInstanceByKey]
  /\ (last.op = "stash" /\ last.res = "true") =>
       LET c == CallClass
           key == <<c, currentBranch, AddressedId(last.args, storage[c].keyProp)>>
       IN /\ key \in StoredKeys(storage)
          /\ \A p \in storage[c].dProps :
               last.args.obj.props[p] # Undefined =>
                 (p \in DOMAIN RecordOf(storage, key)
                    /\ RecordOf(storage, key)[p] = last.args.obj.props[p])
          /\ \A b \in AllBranches \ {currentBranch} :
               /\ (b \in DOMAIN storage[c].branchNodes) = (b \in DOMAIN last.pre.storage[c].branchNodes)
               /\ b \in DOMAIN storage[c].branchNodes =>
                    storage[c].branchNodes[b] = last.pre.storage[c].branchNodes[b]
  /\ (/\ last.op = "reassign" /\ last.res # "throw"
      /\ CallClass \in DOMAIN storage
      /\ AddressedId(last.args, storage[CallClass].keyProp) # Undefined) =>
       LET c == CallClass
           key == <<c, currentBranch, AddressedId(last.args, storage[c].keyProp)>>
       IN /\ (last.res = "true") = (key \in StoredKeys(storage))
          /\ last.res = "true" =>
               \A p \in DOMAIN RecordOf(storage, key) : last.out.props[p] = RecordOf(storage, key)[p]

\* with branch "A" current a reassign has restored the value stashed under "A",
\* the class holding another value for the same id under "*": one of the two
\* branches was not current when the class was registered
CallsUseCurrentBranchWitness ==
  /\ last.op = "reassign" /\ last.res = "true"
  /\ currentBranch = "A"
  /\ LET c == CallClass
         k == AddressedId(last.args, storage[c].keyProp)
     IN /\ <<c, "*", k>> \in StoredKeys(storage)
        /\ <<c, "A", k>> \in StoredKeys(storage)
        /\ "a" \in DOMAIN RecordOf(storage, <<c, "*", k>>)
        /\ "a" \in DOMAIN RecordOf(storage, <<c, "A", k>>)
        /\ RecordOf(storage, <<c, "*", k>>)["a"] = "1"
        /\ RecordOf(storage, <<c, "A", k>>)["a"] = "2"
        /\ last.out.props["a"] = "2"

\* C18 (instance id resolution): the key property of a class is the one given at
\* its registration, or "id" when none was given; a stash or reassign on a
\* registered class addresses the forced id when one is given, otherwise the value
\* of the key property of its object: stash writes that record and no other,
\* reassign hits exactly if that record exists and reads it.
InstanceIdResolution ==
  /\ (last.op = "registerClass" /\ last.res = "true") =>
       storage[NamedClass(last.args)].keyProp =
         IF last.args.keyProp = Undefined THEN "id" ELSE last.args.keyProp
  /\ (last.op \in {"stash", "reassign"} /\ CallClass \in DOMAIN last.pre.storage) =>
       LET c == CallClass
           k == IF last.args.forcedId # Undefined THEN last.args.forcedId
                ELSE last.args.obj.props[last.pre.storage[c].keyProp]
           key == <<c, currentBranch, k>>
       IN IF k = Undefined THEN last.res = "false"
          ELSE IF last.op = "stash"
          THEN /\ last.res = "true"
               /\ StoredKeys(storage) = StoredKeys(last.pre.storage) \cup {key}
               /\ \A other \in StoredKeys(last.pre.storage) \ {key} :
                    RecordOf(storage, other) = RecordOf(last.pre.storage, other)
               /\ \A p \in storage[c].dProps :
                    last.args.obj.props[p] # Undefined =>
                      (p \in DOMAIN RecordOf(storage, key)
                         /\ RecordOf(storage, key)[p] = last.args.obj.props[p])
          ELSE /\ (last.res = "true") = (key \in StoredKeys(storage))
               /\ last.res = "true" =>
                    \A p \in Fields :
                      last.out.props[p] = IF p \in DOMAIN RecordOf(storage, key)
                                          THEN RecordOf(storage, key)[p]
                                          ELSE last.args.obj.props[p]

\* a stash with forced id "y" of an object whose key property "id" holds "x" has
\* written the record of "y" and left the record of "x" as it was
InstanceIdResolutionWitness ==
  /\ last.op = "stash" /\ last.res = "true"
  /\ last.args.forcedId = "y"
  /\ storage[CallClass].keyProp = "id"
  /\ last.args.obj.props["id"] = "x" /\ last.args.obj.props["a"] = "2"
  /\ <<CallClass, currentBranch, "x">> \in StoredKeys(last.pre.storage)
  /\ <<CallClass, currentBranch, "y">> \notin StoredKeys(last.pre.storage)
  /\ RecordOf(storage, <<CallClass, currentBranch, "x">>) = [p \in {"a"} |-> "1"]
  /\ RecordOf(storage, <<CallClass, currentBranch, "y">>)["a"] = "2"

\* C19 (lifecycle persistence): after ngOnInit on a component of a wrapped class,
\* each property the configuration of the class names holds the value that the
\* latest component of this class and key destroyed under the branch now current
\* held for it; constructing a component changes no registered class and no record.
LifecyclePersistence ==
  /\ last.op = "ngOnInit" =>
       LET config == Wrapping(last.args.decl).config
           k == last.args.obj.props[MixinKeyProp(config)]
           key == <<last.args.decl, currentBranch, k>>
       IN (k # Undefined /\ key \in DOMAIN stashLog) =>
            \A p \in DOMAIN stashLog[key] : last.out.props[p] = stashLog[key][p]
  /\ last.op = "construct" =>
       \A c \in DOMAIN last.pre.storage : storage[c] = last.pre.storage[c]

\* C20 (order of the hooks of a decorated class): the class's own ngOnInit runs on
\* the component as the reassign has left it; the stash of ngOnDestroy takes the
\* values the component holds before the class's own ngOnDestroy runs, and the
\* class's own ngOnDestroy runs on the component as it was stashed.
LifecycleOrdering ==
  /\ (last.op = "ngOnInit" /\ HasNgOnInit(last.args.decl)) =>
       /\ last.res = statefuldReassign(last.args.obj).res
       /\ last.out = SuperNgOnInit(last.args.decl, statefuldReassign(last.args.obj).target)
  /\ (last.op = "ngOnDestroy" /\ HasNgOnDestroy(last.args.decl)) =>
       /\ last.out = SuperNgOnDestroy(last.args.decl, last.args.obj)
       /\ last.res = "true" =>
            LET node == storage[last.args.obj.ctor]
                record == node.branchNodes[currentBranch][last.args.obj.props[node.keyProp]]
            IN \A p \in node.dProps :
                 last.args.obj.props[p] # Undefined =>
                   (p \in DOMAIN record /\ record[p] = last.args.obj.props[p])

\* ngOnDestroy of a Hero holding a = "2": the record, which held a = "1", holds
\* a = "2", and the component has been cleared by Hero's own ngOnDestroy
LifecycleOrderingWitness ==
  /\ last.op = "ngOnDestroy" /\ last.res = "true"
  /\ last.args.decl = "Hero"
  /\ last.args.obj.props["a"] = "2"
  /\ last.out.props["a"] = Undefined
  /\ LET node == storage[last.args.obj.ctor]
         old == last.pre.storage[last.args.obj.ctor]
         k == last.args.obj.props[node.keyProp]
     IN /\ node.dProps = {"a"}
        /\ currentBranch \in DOMAIN old.branchNodes
        /\ k \in DOMAIN old.branchNodes[currentBranch]
        /\ old.branchNodes[currentBranch][k] = [p \in {"a"} |-> "1"]
        /\ node.branchNodes[currentBranch][k] = [p \in {"a"} |-> "2"]

\* the keyProp a configuration gives, undefined for an array of names
ConfigKeyProp(config) == IF config.kind = "array" THEN Undefined ELSE config.keyProp

\* C21 (default key property of the lifecycle integration): a class wrapped with a
\* configuration that gives no keyProp is registered with the key property
\* "statefuldKey"; on a component of such a class whose statefuldKey is undefined
\* ngOnDestroy stashes nothing and ngOnInit restores nothing (stash and reassign
\* return false), whether or not the component has an id.
MixinDefaultKeyProp ==
  /\ (/\ last.op = "construct" /\ last.res = "true"
      /\ ConfigKeyProp(Wrapping(last.args.decl).config) = Undefined) =>
       storage[last.args.obj.ctor].keyProp = "statefuldKey"
  /\ (/\ last.op \in {"ngOnInit", "ngOnDestroy"}
      /\ ConfigKeyProp(Wrapping(last.args.decl).config) = Undefined
      /\ last.args.obj.props["statefuldKey"] = Undefined) =>
       /\ last.res = "false"
       /\ storage = last.pre.storage
       /\ last.op = "ngOnInit" =>
            last.out = IF HasNgOnInit(last.args.decl)
                       THEN SuperNgOnInit(last.args.decl, last.args.obj)
                       ELSE last.args.obj

\* C22 (a stash of nothing leaves an empty record): a stash on a registered class
\* with an instance id returns true even when its payload defines no tracked
\* property; where the id had no record in the current branch, the record then
\* exists and holds no property, and every reassign that addresses the class and
\* the id while the branch is current returns true and leaves its target as it was.
EmptyStashCreatesRecord ==
  (/\ last.op = "stash"
   /\ CallClass \in DOMAIN last.pre.storage
   /\ AddressedId(last.args, last.pre.storage[CallClass].keyProp) # Undefined
   /\ \A p \in last.pre.storage[CallClass].dProps : last.args.obj.props[p] = Undefined) =>
    LET c == CallClass
        k == AddressedId(last.args, storage[c].keyProp)
        key == <<c, currentBranch, k>>
    IN /\ last.res = "true"
       /\ key \in StoredKeys(storage)
       /\ key \notin StoredKeys(last.pre.storage) =>
            /\ RecordOf(storage, key) = EmptyMap
            /\ \A r \in ReassignArgs :
                 LET rargs == [obj |-> r[1], forcedClassName |-> r[2], forcedId |-> r[3]] IN
                 (AddressedClass(rargs) = c /\ AddressedId(rargs, storage[c].keyProp) = k) =>
                   /\ reassign(r[1], r[2], r[3]).res = "true"
                   /\ reassign(r[1], r[2], r[3]).target = r[1]

\* a stash of a payload with an id and no tracked value has created an empty record
\* in a branch the class had no record for, and a target holding values addresses it
EmptyStashCreatesRecordWitness ==
  /\ last.op = "stash" /\ last.res = "true"
  /\ storage[CallClass].dProps = {"a", "b"}
  /\ last.args.obj.props["a"] = Undefined /\ last.args.obj.props["b"] = Undefined
  /\ currentBranch \notin DOMAIN last.pre.storage[CallClass].branchNodes
  /\ LET c == CallClass
         k == AddressedId(last.args, storage[c].keyProp)
     IN /\ RecordOf(storage, <<c, currentBranch, k>>) = EmptyMap
        /\ \E r \in ReassignArgs :
             LET rargs == [obj |-> r[1], forcedClassName |-> r[2], forcedId |-> r[3]] IN
             /\ AddressedClass(rargs) = c /\ AddressedId(rargs, storage[c].keyProp) = k
             /\ r[1].props["a"] = "2"
             /\ reassign(r[1], r[2], r[3]).res = "true"

\* C23 (frame of stash): a successful stash leaves every class registered with the
\* configuration it had, the records of every other class, of every other branch of
\* the addressed class and of every other id in the current branch as they were,
\* the payload object and currentBranch as they were; the only branch and the only
\* record that can appear are the current branch of the addressed class and the
\* record of the addressed id in it.
StashFrame ==
  (last.op = "stash" /\ last.res = "true") =>
    LET c == CallClass
        k == AddressedId(last.args, storage[c].keyProp)
        old == last.pre.storage
        oldInstances == IF currentBranch \in DOMAIN old[c].branchNodes
                        THEN old[c].branchNodes[currentBranch] ELSE EmptyMap
    IN /\ DOMAIN storage = DOMAIN old
       /\ \A d \in DOMAIN storage \ {c} : storage[d] = old[d]
       /\ storage[c].dProps = old[c].dProps
       /\ storage[c].keyProp = old[c].keyProp
       /\ storage[c].fnGetSourceInstanceByKey = old[c].fnGetSourceInstanceByKey
       /\ DOMAIN storage[c].branchNodes = (DOMAIN old[c].branchNodes) \cup {currentBranch}
       /\ \A b \in DOMAIN old[c].branchNodes \ {currentBranch} :
            storage[c].branchNodes[b] = old[c].branchNodes[b]
       /\ DOMAIN storage[c].branchNodes[currentBranch] = (DOMAIN oldInstances) \cup {k}
       /\ \A i \in DOMAIN oldInstances \ {k} :
            storage[c].branchNodes[currentBranch][i] = oldInstances[i]
       /\ currentBranch = last.pre.currentBranch
       /\ last.out = last.args.obj

\* a stash under a branch new to the class has written its record while the class
\* holds a record under another branch and another class is registered
StashFrameWitness ==
  /\ last.op = "stash" /\ last.res = "true"
  /\ last.args.obj.props["a"] = "2"
  /\ currentBranch = "A"
  /\ currentBranch \notin DOMAIN last.pre.storage[CallClass].branchNodes
  /\ <<CallClass, "*", "x">> \in StoredKeys(last.pre.storage)
  /\ RecordOf(storage, <<CallClass, "*", "x">>) = [p \in {"a"} |-> "1"]
  /\ DOMAIN storage = ClassNames

\* C24 (records hold tracked properties only, configurations are fixed): in every
\* state the property names of every instance record of a class are among the
\* tracked properties of the class; a registration that succeeds stores the names
\* and the key property it was given ("id" when none), and no step changes the
\* tracked properties or the key property of a registered class.
RecordsWithinTrackedProps ==
  /\ [](/\ \A c \in DOMAIN storage : \A b \in DOMAIN storage[c].branchNodes :
             \A i \in DOMAIN storage[c].branchNodes[b] :
               DOMAIN storage[c].branchNodes[b][i] \subseteq storage[c].dProps
        /\ (last.op = "registerClass" /\ last.res = "true") =>
             /\ storage[NamedClass(last.args)].dProps = SuppliedNames(last.args.dProps)
             /\ storage[NamedClass(last.args)].keyProp =
                  IF last.args.keyProp = Undefined THEN DefaultKeyProp ELSE last.args.keyProp)
  /\ [][\A c \in DOMAIN storage :
          /\ c \in DOMAIN storage'
          /\ storage'[c].dProps = storage[c].dProps
          /\ storage'[c].keyProp = storage[c].keyProp]_vars

\* a stash of a payload that defines the untracked "b" has stored the tracked "a"
\* alone, in a class that tracks "a" only
RecordsWithinTrackedPropsWitness ==
  /\ last.op = "stash" /\ last.res = "true"
  /\ storage[CallClass].dProps = {"a"}
  /\ last.args.obj.props["a"] = "2" /\ last.args.obj.props["b"] = "1"
  /\ last.args.obj.props["id"] = "x" /\ last.args.forcedId = Undefined
  /\ RecordOf(storage, <<CallClass, currentBranch, "x">>) = [p \in {"a"} |-> "2"]

\* the record of key = (class, branch, id) is the one the reassign just made addresses
ReassignOn(key) ==
  /\ last.op = "reassign"
  /\ CallClass = key[1] /\ CallClass \in DOMAIN storage
  /\ currentBranch = key[2]
  /\ AddressedId(last.args, storage[CallClass].keyProp) = key[3]

\* C25 (the registry only grows): no step removes a registered class, a branch of a
\* class, an instance record of a branch or a property entry of a record; once a
\* reassign addressing a class and an id under a branch has returned true, every
\* later reassign addressing the same class and id while that branch is current
\* returns true.
RegistryOnlyGrows ==
  /\ [][\A c \in DOMAIN storage :
          /\ c \in DOMAIN storage'
          /\ \A b \in DOMAIN storage[c].branchNodes :
               /\ b \in DOMAIN storage'[c].branchNodes
               /\ \A i \in DOMAIN storage[c].branchNodes[b] :
                    /\ i \in DOMAIN storage'[c].branchNodes[b]
                    /\ DOMAIN storage[c].branchNodes[b][i]
                         \subseteq DOMAIN storage'[c].branchNodes[b][i]]_vars
  /\ \A key \in ClassNames \X AllBranches \X InstanceIds :
       []((ReassignOn(key) /\ last.res = "true") => [](ReassignOn(key) => last.res = "true"))

\* a reassign has hit the record of "x" under "*" after a record of "y" was added
\* to the branch and after the record of "x" received its second property
RegistryOnlyGrowsWitness ==
  /\ last.op = "reassign" /\ last.res = "true"
  /\ ReassignOn(<<"Hero", "*", "x">>)
  /\ DOMAIN storage["Hero"].branchNodes["*"] = {"x", "y"}
  /\ DOMAIN storage["Hero"].branchNodes["*"]["x"] = {"a", "b"}
  /\ stashLog[<<"Hero", "*", "x">>] = storage["Hero"].branchNodes["*"]["x"]

\* the call running line by line is at a getInstance or setInstance, and the class
\* has no record for the branch now current
LooksUpMissingBranch ==
  /\ frame.pc \in {"165", "166", "168", "126", "130"}
  /\ currentBranch \notin DOMAIN storage[frame.className].branchNodes

\* C26 (the unguarded lookups find their branch): where every call runs to its end
\* before another caller acts, stash and reassign reach getInstance and setInstance
\* only while the class has a record for the current branch, and neither ends in
\* the TypeError of a lookup in a missing branch.
UnguardedLookupsFindBranch ==
  app = "locked" =>
    /\ ~LooksUpMissingBranch
    /\ last.op \in {"stash", "reassign"} => last.res # "throw"

\* a locked stash stands at its first getInstance in the branch "A" that it has
\* just created for a class that had a record under "*" only
UnguardedLookupsFindBranchWitness ==
  /\ app = "locked"
  /\ last.op = "stash" /\ frame.pc = "165"
  /\ currentBranch = "A"
  /\ DOMAIN last.pre.storage[frame.className].branchNodes = {"*"}
  /\ DOMAIN storage[frame.className].branchNodes = {"*", "A"}

\* C27 (stash and reassign are not atomic under interleaving): a call of stash or
\* reassign looks up a branch the class has no record for, ends in a TypeError or
\* looks up two branches only if a switch of another caller has come between its
\* steps; where each call runs under one lock no switch comes between the steps of
\* a call.
InterleavedSwitchBreaksCalls ==
  /\ app = "locked" => frame.switched = "false"
  /\ (/\ last.op \in {"stash", "reassign"}
      /\ LooksUpMissingBranch \/ last.res = "throw" \/ Cardinality(frame.used) > 1) =>
       frame.switched = "true"

\* a reassign that found its record under "*" has ended in a TypeError under "A",
\* for which the class has no record, after a switch between its lines
InterleavedSwitchBreaksCallsWitness ==
  /\ app = "interleaved"
  /\ last.op = "reassign" /\ last.res = "throw"
  /\ frame.used = {"*", "A"}
  /\ currentBranch = "A"
  /\ "A" \notin DOMAIN storage[frame.className].branchNodes
  /\ frame.id \in DOMAIN storage[frame.className].branchNodes["*"]

====
